---- MODULE Spec2Model ----
(***************************************************************************)
(* A model of the form-api domain classes: Form, Field (with its linked    *)
(* field condition), TextField, SelectField and SelectFieldChoice.         *)
(*                                                                         *)
(* Objects are named heap cells; a Form's `fields` array and a             *)
(* SelectField's `choices` array hold references to them, so that an       *)
(* object mutated through one reference is seen mutated through all.       *)
(***************************************************************************)
EXTENDS Integers, Sequences, FiniteSets, TLC

(***************************************************************************)
(* JavaScript values.  Every value carries its runtime type, so that       *)
(* `typeof` and truthiness are computed as the language computes them.     *)
(* An absent optional property and a property holding `undefined` are the  *)
(* same thing to every reader in the code, and are both Undefined here.    *)
(***************************************************************************)
Undefined == [type |-> "undefined", str |-> "", num |-> 0, bool |-> FALSE]

JSString(s) == [type |-> "string", str |-> s, num |-> 0, bool |-> FALSE]

JSNumber(n) == [type |-> "number", str |-> "", num |-> n, bool |-> FALSE]

JSBoolean(b) == [type |-> "boolean", str |-> "", num |-> 0, bool |-> b]

typeof(v) == v.type

\* ToBoolean of ECMAScript: undefined, false, 0 and "" are falsy.
Truthy(v) ==
    CASE v.type = "undefined" -> FALSE
      [] v.type = "boolean" -> v.bool
      [] v.type = "number" -> v.num # 0
      [] v.type = "string" -> v.str # ""

\* Object spread { ...a, ...b }: the keys of b override those of a.
Spread(a, b) ==
    [k \in DOMAIN a \cup DOMAIN b |-> IF k \in DOMAIN b THEN b[k] ELSE a[k]]

\* Reading property k of object o: undefined when o has no such key.
Prop(o, k) == IF k \in DOMAIN o THEN o[k] ELSE Undefined

\* const { matchValue, ...rest } = condition: the record without matchValue.
RestOf(condition) ==
    [k \in DOMAIN condition \ {"matchValue"} |-> condition[k]]

(***************************************************************************)
(* Bounds and the finite universe of objects and inputs.                   *)
(***************************************************************************)
\* Form.addField never refuses for lack of room; the model stops appending here.
MaxFields == 3

\* SelectField.addChoice never refuses for lack of room either.
MaxChoices == 3

\* The Field objects that exist (the variables of the README example).
FieldObjs == {"email", "subscribe", "cadence"}

\* The SelectFieldChoice objects that exist.
ChoiceObjs == {"every_day", "weekly", "twin"}

\* The id of the one Form of the model, and the id of some other form.
ThisForm == "form1"

OtherForm == "form2"

\* The matchValue arguments tried: absent, and both a falsy and a truthy
\* value of each scalar type.
MatchValues ==
    {Undefined, JSBoolean(FALSE), JSBoolean(TRUE),
     JSNumber(0), JSNumber(1), JSString(""), JSString("a")}

\* The condition arguments tried: with and without a hasValue key; the
\* README's { hasValue: true } has no matchValue key at all.
Conditions ==
    {[matchValue |-> m] : m \in MatchValues}
    \cup {[hasValue |-> JSBoolean(TRUE), matchValue |-> m] : m \in MatchValues}
    \cup {[hasValue |-> JSBoolean(TRUE)]}

\* The one condition of the README's first call.
ReadmeConditions == {[hasValue |-> JSBoolean(TRUE)]}

\* The fields that receive the whole of Conditions.
ConditionedObjs == {"subscribe"}

\* The condition recorded for a call that takes none.
NoCondition == [matchValue |-> Undefined]

VARIABLES
    fields,     \* Form.fields: the sequence of references to Field objects
    data,       \* Field.data of every Field object
    choices,    \* SelectField.choices: references to SelectFieldChoice objects
    cdata,      \* SelectFieldChoice.data of every choice object
    properties, \* SelectField.properties
    textProperties, \* TextField.properties
    fileProperties, \* FileField.properties
    last        \* the last call made: operation, receiver, argument, outcome

formVars == <<fields, data>>

selectVars == <<choices, cdata, properties>>

textVars == <<textProperties>>

fileVars == <<fileProperties>>

vars ==
    <<fields, data, choices, cdata, properties, textProperties,
      fileProperties, last>>

\* The record of a call: `severed` is the set of fields whose condition a
\* removeField cleared, empty for every other call; `wasArchived` is the
\* archived flag of the argument when the call was made; `returned` is the
\* value the call returned, "undefined" unless the operation sets it.
Call(op, self, arg, condition, ok, severed) ==
    [op |-> op, self |-> self, arg |-> arg, condition |-> condition,
     ok |-> ok, severed |-> severed,
     wasArchived |-> IF arg \in FieldObjs THEN data[arg].archived
                     ELSE IF arg \in ChoiceObjs THEN cdata[arg].archived
                     ELSE FALSE,
     returned |-> "undefined"]

(***************************************************************************)
(* Field                                                                   *)
(***************************************************************************)
\* Field constructor, called with a record that carries no condition.
NewField(id, formId) ==
    [id |-> id, formId |-> formId, archived |-> FALSE,
     linkedFieldId |-> Undefined, hasValue |-> Undefined,
     matchValueStr |-> Undefined, matchValueInt |-> Undefined,
     matchValueBool |-> Undefined]

\* A setArchived that flips the flag instead of setting it.
ToggledArchived(d) == [d EXCEPT !.archived = ~d.archived]

\* Field.setArchived, as a function of the record.
Archived(d) == [d EXCEPT !.archived = TRUE]

\* A clearLinkedFieldCondition that unsets the link and forgets the rest.
ClearedLinkOnly(d) == Spread(d, [linkedFieldId |-> Undefined])

\* Field.clearLinkedFieldCondition, as a function of the record.
ClearedCondition(d) ==
    Spread(d, [linkedFieldId |-> Undefined,
               hasValue |-> Undefined,
               matchValueBool |-> Undefined,
               matchValueInt |-> Undefined,
               matchValueStr |-> Undefined])

\* A conditionMatchProperties that holds only the key of matchValue's type,
\* so that the spread leaves the other two as they were.
MatchPropertyOfTypeOnly(matchValue) ==
    IF Truthy(matchValue) /\ typeof(matchValue) = "number"
    THEN [matchValueInt |-> matchValue]
    ELSE IF Truthy(matchValue) /\ typeof(matchValue) = "string"
    THEN [matchValueStr |-> matchValue]
    ELSE IF Truthy(matchValue) /\ typeof(matchValue) = "boolean"
    THEN [matchValueBool |-> matchValue]
    ELSE [k \in {} |-> Undefined]

\* The conditionMatchProperties object of Field.setLinkedFieldCondition.
ConditionMatchProperties(matchValue) ==
    [matchValueInt |->
        IF Truthy(matchValue) /\ typeof(matchValue) = "number"
        THEN matchValue ELSE Undefined,
     matchValueStr |->
        IF Truthy(matchValue) /\ typeof(matchValue) = "string"
        THEN matchValue ELSE Undefined,
     matchValueBool |->
        IF Truthy(matchValue) /\ typeof(matchValue) = "boolean"
        THEN matchValue ELSE Undefined]

\* The guard without its test of linkedField.archived.
RejectedOtherFormOnly(d, linked) == d.formId # linked.formId

\* The guard of Field.setLinkedFieldCondition: TRUE when it throws.
ConditionRejected(d, linked) ==
    d.formId # linked.formId \/ linked.archived

\* The record Field.setLinkedFieldCondition assigns to this.data.
WithCondition(d, linked, condition) ==
    Spread(Spread(Spread(d, [linkedFieldId |-> JSString(linked.id)]),
                  RestOf(condition)),
           ConditionMatchProperties(Prop(condition, "matchValue")))

setArchived(self) ==
    /\ data' = [data EXCEPT ![self] = Archived(data[self])]
    /\ last' = Call("setArchived", self, self, NoCondition, TRUE, {})
    /\ UNCHANGED <<fields, selectVars, textVars, fileVars>>

clearLinkedFieldCondition(self) ==
    /\ data' = [data EXCEPT ![self] = ClearedCondition(data[self])]
    /\ last' = Call("clearLinkedFieldCondition", self, self, NoCondition,
                    TRUE, {})
    /\ UNCHANGED <<fields, selectVars, textVars, fileVars>>

setLinkedFieldCondition(self, linkedField, condition) ==
    /\ IF ConditionRejected(data[self], data[linkedField])
       THEN /\ UNCHANGED data
            /\ last' = Call("setLinkedFieldCondition", self, linkedField,
                            condition, FALSE, {})
       ELSE /\ data' = [data EXCEPT ![self] =
                            WithCondition(data[self], data[linkedField], condition)]
            /\ last' = Call("setLinkedFieldCondition", self, linkedField,
                            condition, TRUE, {})
    /\ UNCHANGED <<fields, selectVars, textVars, fileVars>>

(***************************************************************************)
(* Form                                                                    *)
(***************************************************************************)
\* Array.prototype.findIndex over Form.fields by id; 0 stands for -1.
RECURSIVE FindIndexFrom(_, _, _, _)
FindIndexFrom(fs, d, fieldId, i) ==
    IF i > Len(fs) THEN 0
    ELSE IF d[fs[i]].id = fieldId THEN i
    ELSE FindIndexFrom(fs, d, fieldId, i + 1)

getFieldIndexById(fs, d, fieldId) == FindIndexFrom(fs, d, fieldId, 1)

hasField(fs, d, field) == getFieldIndexById(fs, d, d[field].id) # 0

\* A callback test that takes every conditioned field for a related one.
IsConditioned(relatedData, fieldId) == relatedData.linkedFieldId # Undefined

\* The test of the forEach callback of Form.removeField.
IsRelated(relatedData, fieldId) ==
    relatedData.linkedFieldId = JSString(fieldId)

\* A loop that stops at the first related field instead of visiting them all.
RECURSIVE SeverFirstFrom(_, _, _, _)
SeverFirstFrom(fs, d, fieldId, i) ==
    IF i > Len(fs) THEN d
    ELSE IF d[fs[i]].linkedFieldId = JSString(fieldId)
    THEN [d EXCEPT ![fs[i]] = ClearedCondition(d[fs[i]])]
    ELSE SeverFirstFrom(fs, d, fieldId, i + 1)

\* The forEach of Form.removeField, from position i on: every related field
\* whose linkedFieldId is the removed field's id gets its condition cleared.
RECURSIVE SeverFrom(_, _, _, _)
SeverFrom(fs, d, fieldId, i) ==
    IF i > Len(fs) THEN d
    ELSE SeverFrom(fs,
                   IF IsRelated(d[fs[i]], fieldId)
                   THEN [d EXCEPT ![fs[i]] = ClearedCondition(d[fs[i]])]
                   ELSE d,
                   fieldId, i + 1)

\* The Field records after a removeField(field) that does not throw.
AfterRemove(fs, d, field) ==
    SeverFrom(fs, [d EXCEPT ![field] = Archived(d[field])], d[field].id, 1)

\* A removeField that takes the entries of the field's id out of the field
\* sequence, a physical deletion, after archiving and severing as the code
\* does.
removeFieldSplicing(field) ==
    /\ IF ~hasField(fields, data, field)
       THEN /\ UNCHANGED <<fields, data>>
            /\ last' = Call("removeField", "form", field, NoCondition,
                            FALSE, {})
       ELSE /\ data' = AfterRemove(fields, data, field)
            /\ fields' = SelectSeq(fields,
                                   LAMBDA f : data[f].id # data[field].id)
            /\ last' = Call("removeField", "form", field, NoCondition, TRUE,
                            {o \in FieldObjs : data'[o].linkedFieldId
                                                 # data[o].linkedFieldId})
    /\ UNCHANGED <<selectVars, textVars, fileVars>>

\* A removeField without its membership test.
removeFieldUnchecked(field) ==
    /\ data' = AfterRemove(fields, data, field)
    /\ last' = Call("removeField", "form", field, NoCondition, TRUE,
                    {o \in FieldObjs : data'[o].linkedFieldId
                                         # data[o].linkedFieldId})
    /\ UNCHANGED <<fields, selectVars, textVars, fileVars>>

\* A removeField that refuses a member it has archived before.
removeFieldOnce(field) ==
    /\ IF ~hasField(fields, data, field) \/ data[field].archived
       THEN /\ UNCHANGED data
            /\ last' = Call("removeField", "form", field, NoCondition,
                            FALSE, {})
       ELSE /\ data' = AfterRemove(fields, data, field)
            /\ last' = Call("removeField", "form", field, NoCondition, TRUE,
                            {o \in FieldObjs : data'[o].linkedFieldId
                                                 # data[o].linkedFieldId})
    /\ UNCHANGED <<fields, selectVars, textVars, fileVars>>

removeField(field) ==
    /\ IF ~hasField(fields, data, field)
       THEN /\ UNCHANGED data
            /\ last' = Call("removeField", "form", field, NoCondition,
                            FALSE, {})
       ELSE /\ data' = AfterRemove(fields, data, field)
            /\ last' = Call("removeField", "form", field, NoCondition, TRUE,
                            {o \in FieldObjs : data'[o].linkedFieldId
                                                 # data[o].linkedFieldId})
    /\ UNCHANGED <<fields, selectVars, textVars, fileVars>>

\* An addField without its test of field.archived.
addFieldUnchecked(field) ==
    /\ Len(fields) < MaxFields
    /\ fields' = Append(fields, field)
    /\ last' = Call("addField", "form", field, NoCondition, TRUE, {})
    /\ UNCHANGED <<data, selectVars, textVars, fileVars>>

addField(field) ==
    /\ Len(fields) < MaxFields
    /\ IF data[field].archived
       THEN /\ UNCHANGED fields
            /\ last' = Call("addField", "form", field, NoCondition, FALSE, {})
       ELSE /\ fields' = Append(fields, field)
            /\ last' = Call("addField", "form", field, NoCondition, TRUE, {})
    /\ UNCHANGED <<data, selectVars, textVars, fileVars>>

\* Array.prototype.filter with the callback of Form.getFields, from
\* position i on: the fields that are not archived, in their order.
RECURSIVE FilterLiveFrom(_, _, _)
FilterLiveFrom(fs, d, i) ==
    IF i > Len(fs) THEN <<>>
    ELSE IF ~d[fs[i]].archived
    THEN <<fs[i]>> \o FilterLiveFrom(fs, d, i + 1)
    ELSE FilterLiveFrom(fs, d, i + 1)

\* A getFields whose filter keeps the archived fields.
getArchivedFields(fs, d, includeArchived) ==
    IF includeArchived THEN fs
    ELSE SelectSeq(fs, LAMBDA f : d[f].archived)

\* Form.getFields(options), with options.includeArchived as a boolean.
getFields(fs, d, includeArchived) ==
    IF includeArchived THEN fs ELSE FilterLiveFrom(fs, d, 1)

\* Form.getFields, as a call: it builds its result and writes nothing.
getFieldsCall(includeArchived) ==
    /\ last' = Call("getFields", "form",
                    IF includeArchived THEN "includeArchived" ELSE "live",
                    NoCondition, TRUE, {})
    /\ UNCHANGED <<formVars, selectVars, textVars, fileVars>>

(***************************************************************************)
(* SelectField and SelectFieldChoice                                       *)
(***************************************************************************)
\* SelectFieldChoice constructor.
NewChoice(id) == [id |-> id, archived |-> FALSE]

\* Array.prototype.findIndex over SelectField.choices by id; 0 stands for -1.
RECURSIVE FindChoiceFrom(_, _, _, _)
FindChoiceFrom(cs, cd, choiceId, i) ==
    IF i > Len(cs) THEN 0
    ELSE IF cd[cs[i]].id = choiceId THEN i
    ELSE FindChoiceFrom(cs, cd, choiceId, i + 1)

getChoiceIndexById(cs, cd, choiceId) == FindChoiceFrom(cs, cd, choiceId, 1)

hasChoice(cs, cd, choice) == getChoiceIndexById(cs, cd, cd[choice].id) # 0

\* SelectField.getChoices(options), with options.includeArchived as a boolean.
getChoices(cs, cd, includeArchived) ==
    IF includeArchived THEN cs
    ELSE SelectSeq(cs, LAMBDA choice : ~cd[choice].archived)

\* A setDefaultChoice without its test of defaultChoice.archived.
setDefaultChoiceOfAny(defaultChoice) ==
    /\ IF getChoiceIndexById(choices, cdata, cdata[defaultChoice].id) = 0
       THEN /\ UNCHANGED properties
            /\ last' = Call("setDefaultChoice", "select", defaultChoice,
                            NoCondition, FALSE, {})
       ELSE /\ properties' = [properties EXCEPT !.defaultChoiceId =
                                  JSString(cdata[defaultChoice].id)]
            /\ last' = Call("setDefaultChoice", "select", defaultChoice,
                            NoCondition, TRUE, {})
    /\ UNCHANGED <<formVars, textVars, fileVars, choices, cdata>>

setDefaultChoice(defaultChoice) ==
    /\ IF getChoiceIndexById(choices, cdata, cdata[defaultChoice].id) = 0
       THEN /\ UNCHANGED properties
            /\ last' = Call("setDefaultChoice", "select", defaultChoice,
                            NoCondition, FALSE, {})
       ELSE IF cdata[defaultChoice].archived
       THEN /\ UNCHANGED properties
            /\ last' = Call("setDefaultChoice", "select", defaultChoice,
                            NoCondition, FALSE, {})
       ELSE /\ properties' = [properties EXCEPT !.defaultChoiceId =
                                  JSString(cdata[defaultChoice].id)]
            /\ last' = Call("setDefaultChoice", "select", defaultChoice,
                            NoCondition, TRUE, {})
    /\ UNCHANGED <<formVars, textVars, fileVars, choices, cdata>>

\* An addChoice without its test of choice.archived.
addChoiceUnchecked(choice) ==
    /\ Len(choices) < MaxChoices
    /\ choices' = Append(choices, choice)
    /\ last' = [Call("addChoice", "select", choice, NoCondition,
                     TRUE, {}) EXCEPT !.returned = choice]
    /\ UNCHANGED <<formVars, textVars, fileVars, cdata, properties>>

addChoice(choice) ==
    /\ Len(choices) < MaxChoices
    /\ IF cdata[choice].archived
       THEN /\ UNCHANGED choices
            /\ last' = Call("addChoice", "select", choice, NoCondition,
                            FALSE, {})
       ELSE /\ choices' = Append(choices, choice)
            /\ last' = [Call("addChoice", "select", choice, NoCondition,
                             TRUE, {}) EXCEPT !.returned = choice]
    /\ UNCHANGED <<formVars, textVars, fileVars, cdata, properties>>

removeChoice(choice) ==
    /\ IF ~hasChoice(choices, cdata, choice)
       THEN /\ UNCHANGED cdata
            /\ last' = Call("removeChoice", "select", choice, NoCondition,
                            FALSE, {})
       ELSE /\ cdata' = [cdata EXCEPT ![choice].archived = TRUE]
            /\ last' = Call("removeChoice", "select", choice, NoCondition,
                            TRUE, {})
    /\ UNCHANGED <<formVars, textVars, fileVars, choices, properties>>

\* SelectFieldChoice.setArchived, called on the choice directly.
setChoiceArchived(choice) ==
    /\ cdata' = [cdata EXCEPT ![choice].archived = TRUE]
    /\ last' = Call("setArchived", choice, choice, NoCondition, TRUE, {})
    /\ UNCHANGED <<formVars, textVars, fileVars, choices, properties>>

\* The ids given to SelectField.isValidValue: those of the choices that
\* exist, and one that no choice has.
ChoiceIdArgs == {"every_day", "weekly", "monthly"}

\* The boolean a validation returned, as the record of the call holds it.
BooleanOf(b) == IF b THEN "true" ELSE "false"

\* An isValidValue of the opposite polarity: choiceIdx !== -1.
selectIsValidValueOfMembers(choiceId) ==
    /\ last' = [Call("isValidValue", "select", choiceId, NoCondition, TRUE, {})
                  EXCEPT !.returned =
                      BooleanOf(getChoiceIndexById(choices, cdata, choiceId) # 0)]
    /\ UNCHANGED <<formVars, selectVars, textVars, fileVars>>

\* An isValidValue that reads this.choices[choiceIdx].archived without
\* testing choiceIdx, and so throws a TypeError when the id is not found.
selectIsValidValueUnguarded(choiceId) ==
    /\ last' =
          IF getChoiceIndexById(choices, cdata, choiceId) = 0
          THEN Call("isValidValue", "select", choiceId, NoCondition, FALSE, {})
          ELSE [Call("isValidValue", "select", choiceId, NoCondition, TRUE, {})
                  EXCEPT !.returned = BooleanOf(
                      ~cdata[choices[getChoiceIndexById(choices, cdata,
                                                        choiceId)]].archived)]
    /\ UNCHANGED <<formVars, selectVars, textVars, fileVars>>

\* SelectField.isValidValue: returns choiceIdx === -1 and writes nothing.
selectIsValidValue(choiceId) ==
    /\ last' = [Call("isValidValue", "select", choiceId, NoCondition, TRUE, {})
                  EXCEPT !.returned =
                      BooleanOf(getChoiceIndexById(choices, cdata, choiceId) = 0)]
    /\ UNCHANGED <<formVars, selectVars, textVars, fileVars>>

(***************************************************************************)
(* TextField                                                               *)
(***************************************************************************)
\* The strings given to TextField.setDefault.
Texts == {"", "ab", "abc", "abcd"}

\* String.prototype.length, on Texts.
Length(value) ==
    CASE value = "" -> 0
      [] value = "ab" -> 2
      [] value = "abc" -> 3
      [] value = "abcd" -> 4

\* An isValidValue whose bounds are exclusive.
isValidTextExclusive(props, value) ==
    IF typeof(props.minLength) # "undefined"
       /\ Length(value) <= props.minLength.num
    THEN FALSE
    ELSE IF typeof(props.maxLength) # "undefined"
            /\ Length(value) >= props.maxLength.num
    THEN FALSE
    ELSE TRUE

\* TextField.isValidValue.
isValidText(props, value) ==
    IF typeof(props.minLength) # "undefined" /\ Length(value) < props.minLength.num
    THEN FALSE
    ELSE IF typeof(props.maxLength) # "undefined"
            /\ Length(value) > props.maxLength.num
    THEN FALSE
    ELSE TRUE

\* A setDefault that stores the value without validating it.
setDefaultUnchecked(defaultValue) ==
    /\ textProperties' = [textProperties EXCEPT !.defaultValue =
                              JSString(defaultValue)]
    /\ last' = Call("setDefault", "text", defaultValue, NoCondition, TRUE, {})
    /\ UNCHANGED <<formVars, selectVars, fileVars>>

\* A setDefault that stores the value before it validates it.
setDefaultWriteFirst(defaultValue) ==
    /\ textProperties' = [textProperties EXCEPT !.defaultValue =
                              JSString(defaultValue)]
    /\ last' = Call("setDefault", "text", defaultValue, NoCondition,
                    isValidText(textProperties, defaultValue), {})
    /\ UNCHANGED <<formVars, selectVars, fileVars>>

\* TextField.setDefault.
setDefault(defaultValue) ==
    /\ IF ~isValidText(textProperties, defaultValue)
       THEN /\ UNCHANGED textProperties
            /\ last' = Call("setDefault", "text", defaultValue, NoCondition,
                            FALSE, {})
       ELSE /\ textProperties' = [textProperties EXCEPT !.defaultValue =
                                      JSString(defaultValue)]
            /\ last' = Call("setDefault", "text", defaultValue, NoCondition,
                            TRUE, {})
    /\ UNCHANGED <<formVars, selectVars, fileVars>>

\* TextField.isValidValue, called by itself: it writes nothing.
textIsValidValue(value) ==
    /\ last' = [Call("isValidValue", "text", value, NoCondition, TRUE, {})
                  EXCEPT !.returned = BooleanOf(isValidText(textProperties, value))]
    /\ UNCHANGED <<formVars, selectVars, textVars, fileVars>>

(***************************************************************************)
(* BooleanField                                                            *)
(***************************************************************************)
\* The values given to BooleanField.isValidValue.
Booleans == {JSBoolean(FALSE), JSBoolean(TRUE)}

\* BooleanField.isValidValue: typeof value === 'boolean'.
booleanIsValidValue(value) ==
    /\ last' = [Call("isValidValue", "boolean", BooleanOf(value.bool),
                      NoCondition, TRUE, {})
                  EXCEPT !.returned = BooleanOf(typeof(value) = "boolean")]
    /\ UNCHANGED <<formVars, selectVars, textVars, fileVars>>

(***************************************************************************)
(* FileField                                                               *)
(***************************************************************************)
\* The Buffers given to FileField.isValidValue, each written as its bytes in
\* ASCII: of no byte, of one, of ten and of eleven bytes.
Buffers == {"", "0", "0123456789", "0123456789a"}

\* Buffer.byteLength, on Buffers.
ByteLength(value) ==
    CASE value = "" -> 0
      [] value = "0" -> 1
      [] value = "0123456789" -> 10
      [] value = "0123456789a" -> 11

\* A test of maxSizeBytes by its truthiness, which takes 0 for unset.
isValidBufferIfTruthy(props, value) ==
    IF Truthy(props.maxSizeBytes)
    THEN ByteLength(value) <= props.maxSizeBytes.num
    ELSE TRUE

\* FileField.isValidValue, as a function of the properties and the Buffer.
isValidBuffer(props, value) ==
    IF typeof(props.maxSizeBytes) # "undefined"
    THEN ByteLength(value) <= props.maxSizeBytes.num
    ELSE TRUE

fileIsValidValue(value) ==
    /\ last' = [Call("isValidValue", "file", value, NoCondition, TRUE, {})
                  EXCEPT !.returned = BooleanOf(isValidBuffer(fileProperties, value))]
    /\ UNCHANGED <<formVars, selectVars, textVars, fileVars>>

(***************************************************************************)
(* Specifications                                                          *)
(***************************************************************************)
\* After construction: an empty Form, three fields without a condition, the
\* third built with the given id for the given form; a SelectField without
\* choices and without a default, and three choices, of which "twin" is
\* another object carrying the id of "every_day"; a TextField that takes
\* three characters and has no default; a FileField that takes ten bytes.
InitWith(thirdId, thirdForm) ==
    /\ fields = <<>>
    /\ data = [o \in FieldObjs |->
                  IF o = "cadence" THEN NewField(thirdId, thirdForm)
                  ELSE NewField(o, ThisForm)]
    /\ choices = <<>>
    /\ cdata = [c \in ChoiceObjs |->
                   IF c = "twin" THEN NewChoice("every_day") ELSE NewChoice(c)]
    /\ properties = [defaultChoiceId |-> Undefined]
    /\ textProperties = [minLength |-> JSNumber(3), maxLength |-> JSNumber(3),
                         defaultValue |-> Undefined]
    /\ fileProperties = [maxSizeBytes |-> JSNumber(10),
                         validExtensions |-> Undefined,
                         validMimeTypes |-> Undefined]
    /\ last = Call("new", "form", "form", NoCondition, TRUE, {})

\* The three fields of the README example, all of this form.
Init == InitWith("cadence", ThisForm)

\* The third field belongs to another form.
InitCondition == InitWith("cadence", OtherForm)

AddField == \E field \in FieldObjs : addField(field)

RemoveField == \E field \in FieldObjs : removeField(field)

SetLinkedFieldCondition ==
    \E self \in FieldObjs, linkedField \in FieldObjs,
       condition \in ReadmeConditions :
        setLinkedFieldCondition(self, linkedField, condition)

ClearLinkedFieldCondition ==
    \E self \in FieldObjs : clearLinkedFieldCondition(self)

\* The Form and the conditions of its fields.
Next ==
    \/ AddField
    \/ RemoveField
    \/ SetLinkedFieldCondition
    \/ ClearLinkedFieldCondition

Spec == Init /\ [][Next]_vars

\* The fields of this form, the two that can be linked to one another.
FewFieldObjs == {"email", "subscribe"}

AddFewFields == \E field \in FewFieldObjs : addField(field)

RemoveFewFields == \E field \in FewFieldObjs : removeField(field)

SetAnyLinkedFieldCondition ==
    \E self \in ConditionedObjs, linkedField \in FieldObjs,
       condition \in Conditions :
        setLinkedFieldCondition(self, linkedField, condition)

ClearAnyLinkedFieldCondition ==
    \E self \in ConditionedObjs : clearLinkedFieldCondition(self)

\* One field under every condition argument, in a Form that can archive it
\* and the fields it links to.
NextCondition ==
    \/ AddFewFields
    \/ RemoveFewFields
    \/ SetAnyLinkedFieldCondition
    \/ ClearAnyLinkedFieldCondition

SpecCondition == InitCondition /\ [][NextCondition]_vars

AddChoice == \E choice \in ChoiceObjs : addChoice(choice)

RemoveChoice == \E choice \in ChoiceObjs : removeChoice(choice)

SetDefaultChoice == \E choice \in ChoiceObjs : setDefaultChoice(choice)

\* The SelectField and its choices.
NextSelect ==
    \/ AddChoice
    \/ RemoveChoice
    \/ SetDefaultChoice

SpecSelect == Init /\ [][NextSelect]_vars

\* The field linked to, the choice and the strings that every operation is
\* tried on together.
FewLinkedObjs == {"email"}

FewChoiceObjs == {"every_day"}

FewTexts == {"ab", "abc"}

SetFewLinkedFieldConditions ==
    \E self \in FewFieldObjs, linkedField \in FewLinkedObjs,
       condition \in ReadmeConditions :
        setLinkedFieldCondition(self, linkedField, condition)

ClearFewLinkedFieldConditions ==
    \E self \in FewFieldObjs : clearLinkedFieldCondition(self)

SetFewArchived == \E self \in FewFieldObjs : setArchived(self)

AddFewChoices == \E choice \in FewChoiceObjs : addChoice(choice)

RemoveFewChoices == \E choice \in FewChoiceObjs : removeChoice(choice)

SetFewDefaultChoices == \E choice \in FewChoiceObjs : setDefaultChoice(choice)

SetFewChoicesArchived == \E choice \in FewChoiceObjs : setChoiceArchived(choice)

SetDefault == \E defaultValue \in FewTexts : setDefault(defaultValue)

\* Every operation of the Form, its fields, the SelectField, its choices and
\* the TextField, interleaved.
NextEvery ==
    \/ AddFewFields
    \/ RemoveFewFields
    \/ SetFewLinkedFieldConditions
    \/ ClearFewLinkedFieldConditions
    \/ SetFewArchived
    \/ AddFewChoices
    \/ RemoveFewChoices
    \/ SetFewDefaultChoices
    \/ SetFewChoicesArchived
    \/ SetDefault

SpecEvery == Init /\ [][NextEvery]_vars

SelectIsValidValue ==
    \E choiceId \in ChoiceIdArgs : selectIsValidValue(choiceId)

TextIsValidValue == \E value \in Texts : textIsValidValue(value)

BooleanIsValidValue == \E value \in Booleans : booleanIsValidValue(value)

FileIsValidValue == \E value \in Buffers : fileIsValidValue(value)

\* The validation of every field variant, that of the SelectField among the
\* additions and removals of its choices.
NextValue ==
    \/ AddChoice
    \/ RemoveChoice
    \/ SelectIsValidValue
    \/ TextIsValidValue
    \/ BooleanIsValidValue
    \/ FileIsValidValue

SpecValue == Init /\ [][NextValue]_vars

\* The format tags, the length bounds and the defaults a TextField is built
\* with: the constructor stores the properties record it is given as it is.
Formats == {"text", "email"}

TextBounds == {Undefined, JSNumber(0), JSNumber(3)}

TextDefaults == {Undefined} \cup {JSString(value) : value \in Texts}

\* After construction, with a TextField of any of these properties.
InitText ==
    /\ fields = <<>>
    /\ data = [o \in FieldObjs |-> NewField(o, ThisForm)]
    /\ choices = <<>>
    /\ cdata = [c \in ChoiceObjs |->
                   IF c = "twin" THEN NewChoice("every_day") ELSE NewChoice(c)]
    /\ properties = [defaultChoiceId |-> Undefined]
    /\ textProperties \in [format : Formats, minLength : TextBounds,
                            maxLength : TextBounds, defaultValue : TextDefaults]
    /\ fileProperties = [maxSizeBytes |-> JSNumber(10),
                         validExtensions |-> Undefined,
                         validMimeTypes |-> Undefined]
    /\ last = Call("new", "text", "text", NoCondition, TRUE, {})

SetAnyDefault == \E defaultValue \in Texts : setDefault(defaultValue)

\* The TextField: its default and its validation.
NextText ==
    \/ SetAnyDefault
    \/ TextIsValidValue

SpecText == InitText /\ [][NextText]_vars

\* A JavaScript array, as a value.
JSArray(elements) == [type |-> "object", elements |-> elements]

\* The properties a FileField is built with: maxSizeBytes unset, zero or
\* more; validExtensions and validMimeTypes unset or set.
FileSizes == {Undefined, JSNumber(0), JSNumber(1), JSNumber(10)}

FileExtensions == {Undefined, JSArray(<<>>), JSArray(<<".png">>)}

FileMimeTypes == {Undefined, JSArray(<<"image">>)}

\* After construction, with a FileField of any of these properties.
InitFile ==
    /\ fields = <<>>
    /\ data = [o \in FieldObjs |-> NewField(o, ThisForm)]
    /\ choices = <<>>
    /\ cdata = [c \in ChoiceObjs |->
                   IF c = "twin" THEN NewChoice("every_day") ELSE NewChoice(c)]
    /\ properties = [defaultChoiceId |-> Undefined]
    /\ textProperties = [minLength |-> JSNumber(3), maxLength |-> JSNumber(3),
                         defaultValue |-> Undefined]
    /\ fileProperties \in [maxSizeBytes : FileSizes,
                            validExtensions : FileExtensions,
                            validMimeTypes : FileMimeTypes]
    /\ last = Call("new", "file", "file", NoCondition, TRUE, {})

\* The FileField: its validation, the one operation it has.
NextFile == FileIsValidValue

SpecFile == InitFile /\ [][NextFile]_vars

\* The third Field object carries the id of the first: another object for
\* the same field, as a caller holds after loading the field a second time.
InitTwin == InitWith("email", ThisForm)

\* The Form, with two objects of one id among the fields given to it.
NextTwin ==
    \/ AddField
    \/ RemoveField

SpecTwin == InitTwin /\ [][NextTwin]_vars

GetFields == \E includeArchived \in BOOLEAN : getFieldsCall(includeArchived)

\* The Form under every operation that reads or writes its field sequence
\* or the fields in it.
NextSequence ==
    \/ AddField
    \/ RemoveField
    \/ SetFewLinkedFieldConditions
    \/ ClearFewLinkedFieldConditions
    \/ GetFields

SpecSequence == Init /\ [][NextSequence]_vars

(***************************************************************************)
(* Properties                                                              *)
(***************************************************************************)
\* The Field objects the Form's field sequence refers to.
Members == {fields[i] : i \in 1..Len(fields)}

\* The linked condition of a Field record.
ConditionOf(d) ==
    <<d.linkedFieldId, d.hasValue, d.matchValueStr, d.matchValueInt,
      d.matchValueBool>>

\* No part of a linked condition is present.
ConditionAbsent(d) ==
    ConditionOf(d) = <<Undefined, Undefined, Undefined, Undefined, Undefined>>

\* The properties of a Field record, among ks, that hold a value.
PresentAmong(d, ks) == {k \in ks : d[k] # Undefined}

\* C1: after a removeField(F) that succeeds on a member F, F is archived and
\* every field of the field sequence whose linkedFieldId was F.id before
\* the call has no linkedFieldId, hasValue, matchValueStr, matchValueInt or
\* matchValueBool left.
C1_RemoveFieldArchivesAndSevers ==
    [][(last'.op = "removeField" /\ last'.ok /\ last'.arg \in Members) =>
          /\ data'[last'.arg].archived
          /\ \A i \in 1..Len(fields) :
                data[fields[i]].linkedFieldId = JSString(data[last'.arg].id)
                    => ConditionAbsent(data'[fields[i]])]_vars

\* A removeField of a member has just severed two or more conditions.
C1_Witness ==
    /\ last.op = "removeField" /\ last.ok
    /\ last.arg \in Members
    /\ data[last.arg].archived
    /\ Cardinality(last.severed) >= 2
    /\ \A o \in last.severed : o \in Members /\ ConditionAbsent(data[o])

\* C2: no field of the field sequence has a linkedFieldId that is the id of
\* an archived field of the field sequence.
C2_NoMemberLinkedToArchived ==
    \A m \in Members, f \in Members :
        data[f].archived => data[m].linkedFieldId # JSString(data[f].id)

\* C3: a removeField(F) that succeeds leaves the condition of every field
\* whose linkedFieldId was not F.id exactly as it was, that of F included.
C3_RemoveFieldTouchesOnlyRelated ==
    [][(last'.op = "removeField" /\ last'.ok) =>
          \A o \in FieldObjs :
              data[o].linkedFieldId # JSString(data[last'.arg].id)
                  => ConditionOf(data'[o]) = ConditionOf(data[o])]_vars

\* The chain cadence -> subscribe -> email with subscribe just removed:
\* cadence was severed, subscribe still links to email, all three are members.
C3_Witness ==
    /\ last.op = "removeField" /\ last.ok /\ last.arg = "subscribe"
    /\ last.severed = {"cadence"}
    /\ Members = FieldObjs
    /\ data["subscribe"].linkedFieldId = JSString("email")
    /\ data["subscribe"].hasValue = JSBoolean(TRUE)
    /\ ConditionAbsent(data["email"])
    /\ ~data["email"].archived

\* C4: defaultChoiceId is unset or is the id of a choice of the choice
\* sequence that is not archived.
C4_DefaultChoiceIsLive ==
    \/ properties.defaultChoiceId = Undefined
    \/ \E i \in 1..Len(choices) :
          /\ JSString(cdata[choices[i]].id) = properties.defaultChoiceId
          /\ ~cdata[choices[i]].archived

\* C5: setLinkedFieldCondition throws exactly when the two formIds differ or
\* linkedField is archived, and when it does not throw the receiver's
\* linkedFieldId is linkedField.id.
C5_SetConditionRejectsExactly ==
    [][(last'.op = "setLinkedFieldCondition") =>
          /\ (~last'.ok) <=>
                \/ data[last'.self].formId # data[last'.arg].formId
                \/ data[last'.arg].archived
          /\ last'.ok =>
                data'[last'.self].linkedFieldId = JSString(data[last'.arg].id)]_vars

\* A call was rejected for the archived linkedField alone.
C5_Witness ==
    /\ last.op = "setLinkedFieldCondition" /\ ~last.ok
    /\ data[last.arg].archived
    /\ data[last.self].formId = data[last.arg].formId

\* C6: after a successful setLinkedFieldCondition the match property of the
\* runtime type of matchValue holds matchValue, falsy or not: a boolean in
\* matchValueBool, a number in matchValueInt, a string in matchValueStr.
C6_FalsyMatchValueKept ==
    (last.op = "setLinkedFieldCondition" /\ last.ok) =>
        LET matchValue == Prop(last.condition, "matchValue")
        IN  /\ typeof(matchValue) = "boolean"
                => data[last.self].matchValueBool = matchValue
            /\ typeof(matchValue) = "number"
                => data[last.self].matchValueInt = matchValue
            /\ typeof(matchValue) = "string"
                => data[last.self].matchValueStr = matchValue

\* C7: a field with a linkedFieldId has exactly one of hasValue,
\* matchValueStr, matchValueInt and matchValueBool.
C7_ExactlyOneMatchRule ==
    \A o \in FieldObjs :
        data[o].linkedFieldId # Undefined =>
            Cardinality(PresentAmong(data[o],
                {"hasValue", "matchValueStr", "matchValueInt",
                 "matchValueBool"})) = 1

\* C8: a field without a linkedFieldId has none of hasValue, matchValueStr,
\* matchValueInt and matchValueBool.
C8_NoLinkNoMatchRule ==
    \A o \in FieldObjs :
        data[o].linkedFieldId = Undefined =>
            PresentAmong(data[o],
                {"hasValue", "matchValueStr", "matchValueInt",
                 "matchValueBool"}) = {}

\* A removeField has just cleared, by its cascade, the condition of a field
\* that had received one.
C8_Witness ==
    /\ last.op = "removeField" /\ last.ok
    /\ "subscribe" \in last.severed
    /\ data["subscribe"].linkedFieldId = Undefined

\* C9: at most one of matchValueStr, matchValueInt and matchValueBool is
\* present on a field.
C9_AtMostOneMatchValue ==
    \A o \in FieldObjs :
        Cardinality(PresentAmong(data[o],
            {"matchValueStr", "matchValueInt", "matchValueBool"})) <= 1

\* A field that already had a condition (its hasValue is still there, and
\* this call supplied none) has just received a number as matchValue.
C9_Witness ==
    /\ last.op = "setLinkedFieldCondition" /\ last.ok
    /\ "hasValue" \notin DOMAIN last.condition
    /\ data[last.self].hasValue # Undefined
    /\ Prop(last.condition, "matchValue") = JSNumber(1)
    /\ data[last.self].matchValueInt = JSNumber(1)

\* C10: no two entries of the field sequence have the same field id.
C10_NoDuplicateField ==
    \A i, j \in 1..Len(fields) :
        i # j => data[fields[i]].id # data[fields[j]].id

\* C11: addField throws exactly when the field is archived, and then leaves
\* the field sequence as it was; otherwise the field sequence afterwards is
\* the one before with the field appended as its last element.
C11_AddFieldRejectsArchived ==
    [][(last'.op = "addField") =>
          /\ (~last'.ok) <=> data[last'.arg].archived
          /\ ~last'.ok => fields' = fields
          /\ last'.ok =>
                /\ Len(fields') = Len(fields) + 1
                /\ fields'[Len(fields')] = last'.arg
                /\ \A i \in 1..Len(fields) : fields'[i] = fields[i]]_vars

\* An addField has just been refused for a field that was archived.
C11_Witness ==
    /\ last.op = "addField" /\ ~last.ok
    /\ last.wasArchived
    /\ data[last.arg].archived

\* C12: a removeField of a field whose id no entry of the field sequence
\* has throws, archives nothing and clears no condition.
C12_RemoveFieldRejectsStranger ==
    [][(/\ last'.op = "removeField"
        /\ \A i \in 1..Len(fields) :
               data[fields[i]].id # data[last'.arg].id) =>
          /\ ~last'.ok
          /\ data' = data
          /\ fields' = fields]_vars

\* A removeField has just been refused for a field that is not archived and
\* that a member of the form still links to.
C12_Witness ==
    /\ last.op = "removeField" /\ ~last.ok
    /\ last.arg \notin Members
    /\ ~data[last.arg].archived
    /\ \E m \in Members :
          data[m].linkedFieldId = JSString(data[last.arg].id)

\* C13: a removeField of a member that is archived already does not throw,
\* leaves it archived, and clears the condition of every entry of the field
\* sequence whose linkedFieldId is its id.
C13_RemoveFieldAgainSevers ==
    [][(/\ last'.op = "removeField"
        /\ last'.arg \in Members
        /\ data[last'.arg].archived) =>
          /\ last'.ok
          /\ data'[last'.arg].archived
          /\ \A i \in 1..Len(fields) :
                data[fields[i]].linkedFieldId = JSString(data[last'.arg].id)
                    => ConditionAbsent(data'[fields[i]])]_vars

\* A removeField of a member that was archived already has just cleared the
\* condition of a member.
C13_Witness ==
    /\ last.op = "removeField" /\ last.ok
    /\ last.wasArchived
    /\ last.arg \in Members
    /\ last.severed # {}
    /\ \A o \in last.severed : o \in Members /\ ConditionAbsent(data[o])

\* The positions of the field sequence that hold a field not archived.
LivePositions == {i \in 1..Len(fields) : ~data[fields[i]].archived}

\* C14: getFields() holds exactly the entries of the field sequence that are
\* not archived, each at the rank it has among them, and
\* getFields({includeArchived: true}) is the whole field sequence.
C14_GetFieldsKeepsOrder ==
    /\ Len(getFields(fields, data, FALSE)) = Cardinality(LivePositions)
    /\ \A i \in LivePositions :
          getFields(fields, data, FALSE)
              [Cardinality({j \in LivePositions : j <= i})] = fields[i]
    /\ getFields(fields, data, TRUE) = fields

\* Three different fields were added and the second one was removed.
C14_Witness ==
    /\ Len(fields) = 3
    /\ Cardinality(Members) = 3
    /\ data[fields[2]].archived
    /\ ~data[fields[1]].archived
    /\ ~data[fields[3]].archived
    /\ getFields(fields, data, FALSE) = <<fields[1], fields[3]>>

\* C15: a call that throws, whichever operation it is, leaves the form, the
\* fields, the choices, the SelectField and the TextField as they were.
C15_FailureChangesNothing ==
    [][(~last'.ok) =>
          UNCHANGED <<fields, data, choices, cdata, properties,
                      textProperties>>]_vars

\* A setDefault has just been refused on a TextField that has a default,
\* next to a form with an archived member and a select with a default.
C15_Witness ==
    /\ last.op = "setDefault" /\ ~last.ok
    /\ textProperties.defaultValue # Undefined
    /\ \E m \in Members : data[m].archived
    /\ properties.defaultChoiceId # Undefined

\* C16: the linkedFieldId of an entry of the field sequence is the id of an
\* entry of the field sequence.
C16_LinkedFieldIsMember ==
    \A m \in Members :
        data[m].linkedFieldId # Undefined =>
            \E f \in Members : JSString(data[f].id) = data[m].linkedFieldId

\* C17: no field has its own id as linkedFieldId.
C17_NoSelfCondition ==
    \A o \in FieldObjs : data[o].linkedFieldId # JSString(data[o].id)

\* C18: a Field or a SelectFieldChoice that is archived is archived after
\* every step, and setArchived on an archived one changes nothing.
C18_ArchivedForEver ==
    [][/\ \A o \in FieldObjs : data[o].archived => data'[o].archived
       /\ \A c \in ChoiceObjs : cdata[c].archived => cdata'[c].archived
       /\ (last'.op = "setArchived" /\ last'.wasArchived) =>
              UNCHANGED <<fields, data, choices, cdata, properties,
                          textProperties>>]_vars

\* setArchived has just been called on a field that was archived already.
C18_Witness ==
    /\ last.op = "setArchived"
    /\ last.wasArchived
    /\ last.arg \in FieldObjs
    /\ data[last.arg].archived

\* The ids of the entries of the choice sequence.
ChoiceIds == {cdata[choices[i]].id : i \in 1..Len(choices)}

\* C19: setDefaultChoice throws exactly when no entry of the choice sequence
\* has the choice's id or the choice is archived, and then changes nothing;
\* otherwise defaultChoiceId is the choice's id and nothing else changes, so
\* that the same call made again leaves the state as it is.
C19_SetDefaultChoiceRejectsExactly ==
    [][(last'.op = "setDefaultChoice") =>
          /\ (~last'.ok) <=>
                \/ cdata[last'.arg].id \notin ChoiceIds
                \/ cdata[last'.arg].archived
          /\ ~last'.ok => properties' = properties
          /\ last'.ok =>
                properties'.defaultChoiceId = JSString(cdata[last'.arg].id)
          /\ (last'.ok /\ properties.defaultChoiceId
                            = JSString(cdata[last'.arg].id)) =>
                properties' = properties
          /\ UNCHANGED <<choices, cdata>>]_vars

\* A setDefaultChoice has just been refused for an archived entry of the
\* choice sequence, under a default set before.
C19_Witness ==
    /\ last.op = "setDefaultChoice" /\ ~last.ok
    /\ last.wasArchived
    /\ \E i \in 1..Len(choices) : choices[i] = last.arg
    /\ properties.defaultChoiceId # Undefined

\* C20: addChoice throws exactly when the choice is archived, and then
\* leaves the choice sequence as it was; otherwise the choice is appended
\* as the last entry and is the value returned.
C20_AddChoiceRejectsArchived ==
    [][(last'.op = "addChoice") =>
          /\ (~last'.ok) <=> cdata[last'.arg].archived
          /\ ~last'.ok => choices' = choices
          /\ last'.ok =>
                /\ choices' = Append(choices, last'.arg)
                /\ last'.returned = last'.arg]_vars

\* An addChoice has just been refused for a choice that was archived.
C20_Witness ==
    /\ last.op = "addChoice" /\ ~last.ok
    /\ last.wasArchived
    /\ cdata[last.arg].archived

\* The SelectFieldChoice objects a sequence of choices refers to.
Entries(cs) == {cs[i] : i \in 1..Len(cs)}

\* C21: removeChoice throws exactly when no entry of the choice sequence has
\* the choice's id; otherwise the choice is an entry of the choice sequence,
\* archived, the whole sequence getChoices({includeArchived: true}) is what
\* it was, and getChoices() does not hold the choice.
C21_RemoveChoiceArchivesInPlace ==
    [][(last'.op = "removeChoice") =>
          /\ (~last'.ok) <=> cdata[last'.arg].id \notin ChoiceIds
          /\ last'.ok =>
                /\ getChoices(choices', cdata', TRUE)
                       = getChoices(choices, cdata, TRUE)
                /\ last'.arg \in Entries(getChoices(choices', cdata', TRUE))
                /\ cdata'[last'.arg].archived
                /\ last'.arg
                       \notin Entries(getChoices(choices', cdata', FALSE))]_vars

\* C22: SelectField.isValidValue(choiceId) returns true exactly when
\* choiceId is the id of an entry of the choice sequence that is not
\* archived.
C22_ValidIffLiveChoice ==
    (last.op = "isValidValue" /\ last.self = "select") =>
        (last.returned = "true" <=>
            \E c \in Entries(choices) :
                cdata[c].id = last.arg /\ ~cdata[c].archived)

\* C23: isValidValue(c.id) returns false for a choice c that was added and
\* then removed, that is, for the id of an archived entry of the choice
\* sequence.
C23_RemovedChoiceIsInvalid ==
    (/\ last.op = "isValidValue" /\ last.self = "select"
     /\ \E c \in Entries(choices) :
            cdata[c].id = last.arg /\ cdata[c].archived) =>
        last.returned = "false"

\* isValidValue was just asked about every_day, which was added and removed.
C23_Witness ==
    /\ last.op = "isValidValue" /\ last.self = "select"
    /\ last.arg = "every_day"
    /\ "every_day" \in Entries(choices)
    /\ cdata["every_day"].archived
    /\ last.returned = "false"

C24_SetDefaultValidates ==
    [][(last'.op = "setDefault") =>
          /\ (~last'.ok) <=> ~isValidText(textProperties, last'.arg)
          /\ ~last'.ok => textProperties' = textProperties
          /\ last'.ok =>
                textProperties' = [textProperties EXCEPT !.defaultValue =
                                       JSString(last'.arg)]]_vars

\* setDefault("ab") was just refused by a TextField with minLength 3, whose
\* defaultValue is unset.
C24_Witness ==
    /\ last.op = "setDefault" /\ ~last.ok
    /\ last.arg = "ab"
    /\ textProperties.minLength = JSNumber(3)
    /\ textProperties.defaultValue = Undefined

\* C25: the defaultValue of a TextField is unset or passes the field's own
\* isValidValue.
C25_DefaultValueIsValid ==
    \/ textProperties.defaultValue = Undefined
    \/ isValidText(textProperties, textProperties.defaultValue.str)

\* C26: TextField.isValidValue returns false exactly when minLength is set
\* and the length is below it, or maxLength is set and the length is above
\* it, and true otherwise, whatever the format.
C26_TextValidByLength ==
    (last.op = "isValidValue" /\ last.self = "text") =>
        /\ last.returned \in {"true", "false"}
        /\ last.returned = "false" <=>
              \/ /\ textProperties.minLength # Undefined
                 /\ Length(last.arg) < textProperties.minLength.num
              \/ /\ textProperties.maxLength # Undefined
                 /\ Length(last.arg) > textProperties.maxLength.num

\* A value of three characters was just found valid by an email TextField
\* whose minLength and maxLength are both 3.
C26_Witness ==
    /\ last.op = "isValidValue" /\ last.self = "text"
    /\ textProperties.format = "email"
    /\ textProperties.minLength = JSNumber(3)
    /\ textProperties.maxLength = JSNumber(3)
    /\ Length(last.arg) = 3
    /\ last.returned = "true"

\* C27: FileField.isValidValue returns true for every Buffer when
\* maxSizeBytes is unset, whatever validExtensions and validMimeTypes are,
\* and otherwise true exactly when the byte length is at most maxSizeBytes,
\* a maxSizeBytes of 0 being set.
C27_FileValidBySize ==
    (last.op = "isValidValue" /\ last.self = "file") =>
        /\ last.returned \in {"true", "false"}
        /\ last.returned = "true" <=>
              \/ fileProperties.maxSizeBytes = Undefined
              \/ ByteLength(last.arg) <= fileProperties.maxSizeBytes.num

\* A Buffer of one byte or more was just refused by a FileField whose
\* maxSizeBytes is 0 and whose validExtensions are set.
C27_Witness ==
    /\ last.op = "isValidValue" /\ last.self = "file"
    /\ fileProperties.maxSizeBytes = JSNumber(0)
    /\ fileProperties.validExtensions # Undefined
    /\ ByteLength(last.arg) > 0
    /\ last.returned = "false"

\* C29: after a successful setLinkedFieldCondition the condition of the
\* receiver is a function of the arguments alone: linkedFieldId is
\* linkedField.id, hasValue is the hasValue supplied, absent when none was
\* supplied, and the three match values are those derived from matchValue.
C29_ConditionFullyReplaced ==
    (last.op = "setLinkedFieldCondition" /\ last.ok) =>
        LET derived ==
                ConditionMatchProperties(Prop(last.condition, "matchValue"))
        IN  /\ data[last.self].linkedFieldId = JSString(data[last.arg].id)
            /\ data[last.self].hasValue = Prop(last.condition, "hasValue")
            /\ data[last.self].matchValueStr = derived.matchValueStr
            /\ data[last.self].matchValueInt = derived.matchValueInt
            /\ data[last.self].matchValueBool = derived.matchValueBool

\* C30: after a successful removeField(f) every entry of the field sequence
\* whose id is f.id is archived and getFields() holds no entry of that id.
C30_RemoveFieldArchivesMember ==
    [][(last'.op = "removeField" /\ last'.ok) =>
          /\ \A i \in 1..Len(fields') :
                data'[fields'[i]].id = data[last'.arg].id
                    => data'[fields'[i]].archived
          /\ \A i \in 1..Len(getFields(fields', data', FALSE)) :
                data'[getFields(fields', data', FALSE)[i]].id
                    # data[last'.arg].id]_vars

\* C31: every step keeps each entry of the field sequence at its position
\* and keeps hasField true of it; the field sequence changes only by an
\* addField, which appends its argument as the last entry.
C31_FieldsAppendOnly ==
    [][/\ Len(fields') >= Len(fields)
       /\ \A i \in 1..Len(fields) :
             /\ fields'[i] = fields[i]
             /\ hasField(fields', data', fields[i])
       /\ fields' # fields =>
             /\ last'.op = "addField"
             /\ fields' = Append(fields, last'.arg)]_vars

\* The first of three entries was just removed: it is archived, it is still
\* the first entry, and getFields() no longer holds it.
C31_Witness ==
    /\ last.op = "removeField" /\ last.ok
    /\ Len(fields) = 3
    /\ fields[1] = last.arg
    /\ data[fields[1]].archived
    /\ hasField(fields, data, fields[1])
    /\ Len(getFields(fields, data, FALSE)) < 3

====
